---- MODULE Spec2Model ----
(***************************************************************************)
(* Model of the ENTSO-E generation unit explorer (src/app.py).             *)
(*                                                                         *)
(* A table (pandas DataFrame) is a sequence of records.  A text cell is a  *)
(* sequence of one-character strings; a missing cell (NaN) is the          *)
(* one-element sequence NaN.  UpdateTime(UTC) is a rank 1, 2, ... (the     *)
(* code only sorts by it) and is never missing.  Generation_MWh is         *)
(* a natural number in the input and a fraction <<num, den>> in lowest     *)
(* terms once averaged.                                                    *)
(*                                                                         *)
(* One action is one run of the script: the first run (Startup) or the     *)
(* rerun a widget change triggers (the widget's value, its callback, then   *)
(* the script from line 1).                                                *)
(***************************************************************************)
EXTENDS Integers, Sequences, FiniteSets, TLC

VARIABLES
    unit_folder,        \* files of "data/unit list/", in glob order
    gen_folder,         \* files of "data/generation/", in glob order
    pc,                 \* "start" | "failed" | "running"
    steps,              \* the steps of the script that have run
    units_loaded,       \* what load_csv_data returned
    df_units,           \* df_units after line 65
    sorted_units,       \* df_units.sort_values("UpdateTime(UTC)")
    df_generation,      \* what load_parquet_data returned
    search_term,        \* st.session_state["search_term"]
    selected_areas,     \* st.session_state["selected_areas"]
    selected_types,     \* st.session_state["selected_types"]
    selected_status,    \* st.session_state["selected_status"]
    show_selected_only, \* st.session_state["show_selected_only"]
    selected_units,     \* st.session_state["selected_units"], a list
    filtered_years,     \* the year slider's value <<y0, y1>>
    filtered_df_units,  \* the table handed to st.data_editor
    filtered_generation,\* the variable of that name after tab2
    signal,             \* what tab2 showed, of "no_selection", "no_data", "chart"
    chart,              \* the rows plotted and offered for download
    last_op             \* what started the last run: "none", "startup", "rerun"
                        \* (a widget's value changed), "reset", "unselect"

vars == <<unit_folder, gen_folder, pc, steps, units_loaded, df_units, sorted_units,
          df_generation, search_term, selected_areas, selected_types,
          selected_status, show_selected_only, selected_units, filtered_years,
          filtered_df_units, filtered_generation, signal, chart, last_op>>

inputs == <<unit_folder, gen_folder>>
loaded == <<units_loaded, df_units, sorted_units, df_generation>>
filters == <<search_term, selected_areas, selected_types, selected_status,
             show_selected_only>>

----------------------------------------------------------------------------
(* Bounds *)

MaxRows == 2        \* rows of a registry in the session specification
MaxRegRows == 3     \* rows of a registry in the loading specification
MaxGenRows == 3     \* rows of a generation table
MaxFiles == 2       \* files of a folder
NowYear == 2015     \* datetime.now().year

MinYear == 2014

----------------------------------------------------------------------------
(* Cells and text *)

NaN == <<"NaN">>

U1 == <<"U", "1">>
U2 == <<"U", "2">>
A1 == <<"A", "1">>
A2 == <<"A", "2">>
T1 == <<"T", "1">>
S1 == <<"S", "1">>
Pa == <<"P", "a">>
Pb == <<"P", "b">>

RECURSIVE IntStr(_)
IntStr(n) ==
    LET d == <<"0", "1", "2", "3", "4", "5", "6", "7", "8", "9">>
    IN  IF n < 10 THEN <<d[n + 1]>> ELSE IntStr(n \div 10) \o <<d[(n % 10) + 1]>>

\* DataFrame.astype(str), one cell of a text column: text stays, NaN becomes
\* "nan".  (A cell of an integer column becomes its decimal digits, IntStr.)
AsStr(v) == IF v = NaN THEN <<"n", "a", "n">> ELSE v

Lower(c) ==
    CASE c = "A" -> "a" [] c = "P" -> "p" [] c = "S" -> "s"
      [] c = "T" -> "t" [] c = "U" -> "u" [] c = "N" -> "n"
      [] OTHER -> c

\* One pattern character against one text character under re.IGNORECASE:
\* "." matches any character, any other character matches itself.
CharMatches(p, c) == p = "." \/ Lower(p) = Lower(c)

\* Series.str.contains(pat, case=False): re.search of pat anywhere in text.
Contains(text, pat) ==
    \E i \in 0..(Len(text) - Len(pat)) :
        \A k \in 1..Len(pat) : CharMatches(pat[k], text[i + k])

----------------------------------------------------------------------------
(* Sequences as tables *)

Range(s) == {s[i] : i \in 1..Len(s)}

RECURSIVE ConcatAll(_)
ConcatAll(ss) == IF ss = <<>> THEN <<>> ELSE Head(ss) \o ConcatAll(Tail(ss))

\* The rows of s at the positions of keep, in the order of s.
RECURSIVE RowsAt(_, _, _)
RowsAt(s, keep, i) ==
    IF i > Len(s) THEN <<>>
    ELSE (IF i \in keep THEN <<s[i]>> ELSE <<>>) \o RowsAt(s, keep, i + 1)

\* DataFrame.drop_duplicates(): the first occurrence of every row.
DropDuplicates(s) ==
    RowsAt(s, {i \in 1..Len(s) : \A j \in 1..(i - 1) : s[j] # s[i]}, 1)

\* pd.concat(dfs, ignore_index=True): the files' rows, in glob order.
Concat(files) == ConcatAll([i \in 1..Len(files) |-> files[i].rows])

\* glob.glob(os.path.join(folder, "*." + ext))
Glob(folder, ext) == SelectSeq(folder, LAMBDA f : f.ext = ext)

----------------------------------------------------------------------------
(* Loading: load_csv_data, load_parquet_data, lines 62-68 *)

\* Mutant of load_csv_data: no test of line 21, an empty table when no file
\* matches.
load_csv_data_no_raise(folder) ==
    [raised |-> FALSE, table |-> Concat(Glob(folder, "csv"))]

\* load_csv_data(folder): FileNotFoundError when no file matches, else the
\* concatenation of every matching file.
load_csv_data(folder) ==
    LET csv_files == Glob(folder, "csv")
    IN  IF csv_files = <<>>
        THEN [raised |-> TRUE, table |-> <<>>]
        ELSE [raised |-> FALSE, table |-> Concat(csv_files)]

load_parquet_data(folder) ==
    LET parquet_files == Glob(folder, "parquet")
    IN  IF parquet_files = <<>>
        THEN [raised |-> TRUE, table |-> <<>>]
        ELSE [raised |-> FALSE, table |-> Concat(parquet_files)]

\* Lines 63-65: the rows with a unit code and an area; reset_index() keeps the
\* row's position in the loaded table as a column named index.
NotNaRows(table) ==
    LET keep == {i \in 1..Len(table) :
                    /\ table[i].GenerationUnitCode # NaN
                    /\ table[i].AreaDisplayName # NaN}
        withIndex == [i \in 1..Len(table) |->
            [index |-> i - 1,
             AreaDisplayName |-> table[i].AreaDisplayName,
             GenerationUnitCode |-> table[i].GenerationUnitCode,
             GenerationUnitName |-> table[i].GenerationUnitName,
             GenerationUnitType |-> table[i].GenerationUnitType,
             GenerationUnitStatus |-> table[i].GenerationUnitStatus,
             UpdateTime |-> table[i].UpdateTime]]
    IN  RowsAt(withIndex, keep, 1)

----------------------------------------------------------------------------
(* Tab 1: deduplication and filters, lines 169-222 *)

Orderings(n) ==
    {p \in [1..n -> 1..n] : \A i, j \in 1..n : p[i] = p[j] => i = j}

\* sort_values("UpdateTime(UTC)") with the default kind (quicksort, not
\* stable): every ordering of the rows by update time is a possible result.
SortValues(table) ==
    {[i \in 1..Len(table) |-> table[p[i]]] :
        p \in {q \in Orderings(Len(table)) :
                 \A i \in 1..(Len(table) - 1) :
                    table[q[i]].UpdateTime <= table[q[i + 1]].UpdateTime}}

\* Mutant of GroupTail: head(1), the first row of every unit code.
GroupHead(sorted) ==
    RowsAt(sorted,
           {i \in 1..Len(sorted) :
               \A j \in 1..(i - 1) :
                   sorted[j].GenerationUnitCode # sorted[i].GenerationUnitCode},
           1)

\* groupby("GenerationUnitCode").tail(1): the last row of every unit code, in
\* the order of the sorted table.
GroupTail(sorted) ==
    RowsAt(sorted,
           {i \in 1..Len(sorted) :
               \A j \in (i + 1)..Len(sorted) :
                   sorted[j].GenerationUnitCode # sorted[i].GenerationUnitCode},
           1)

\* Lines 178-183
FilterSelected(table, only, units) ==
    IF only
    THEN SelectSeq(table, LAMBDA r : r.GenerationUnitCode \in Range(units))
    ELSE table

\* Mutant of FilterArea: isin without the test of line 186.
FilterAreaAlways(table, areas) ==
    SelectSeq(table, LAMBDA r : r.AreaDisplayName \in areas)

\* Lines 186-189
FilterArea(table, areas) ==
    IF areas # {}
    THEN SelectSeq(table, LAMBDA r : r.AreaDisplayName \in areas)
    ELSE table

\* Lines 192-195
FilterType(table, types) ==
    IF types # {}
    THEN SelectSeq(table, LAMBDA r : r.GenerationUnitType \in types)
    ELSE table

\* Lines 198-201
FilterStatus(table, status) ==
    IF status # {}
    THEN SelectSeq(table, LAMBDA r : r.GenerationUnitStatus \in status)
    ELSE table

\* The cells of a row of the table the search runs on, as astype(str) gives
\* them.  (The installed capacity and the production unit's code and name are
\* further text columns of the same kind; they are left out.)
RowText(r) ==
    {IntStr(r.index), AsStr(r.AreaDisplayName), AsStr(r.GenerationUnitCode),
     AsStr(r.GenerationUnitName), AsStr(r.GenerationUnitType),
     AsStr(r.GenerationUnitStatus), IntStr(r.UpdateTime)}

\* Mutant of TextSearch: the index column holds the row's position in the
\* table searched (an index reset inside the pipeline).
TextSearchByPosition(table, term) ==
    IF term # <<>>
    THEN RowsAt(table,
                {i \in 1..Len(table) :
                    \E cell \in (RowText(table[i]) \ {IntStr(table[i].index)})
                                 \cup {IntStr(i - 1)} :
                        Contains(cell, term)},
                1)
    ELSE table

\* Lines 204-210
TextSearch(table, term) ==
    IF term # <<>>
    THEN SelectSeq(table, LAMBDA r : \E cell \in RowText(r) : Contains(cell, term))
    ELSE table

\* Lines 213-219: the Selected column, first.
InsertSelected(table, units) ==
    [i \in 1..Len(table) |->
        [Selected |-> table[i].GenerationUnitCode \in Range(units),
         index |-> table[i].index,
         AreaDisplayName |-> table[i].AreaDisplayName,
         GenerationUnitCode |-> table[i].GenerationUnitCode,
         GenerationUnitName |-> table[i].GenerationUnitName,
         GenerationUnitType |-> table[i].GenerationUnitType,
         GenerationUnitStatus |-> table[i].GenerationUnitStatus,
         UpdateTime |-> table[i].UpdateTime]]

\* Lines 169-222: the table shown in the editor.
Tab1(sorted, units, term, areas, types, status, only) ==
    DropDuplicates(
        InsertSelected(
            TextSearch(
                FilterStatus(
                    FilterType(
                        FilterArea(
                            FilterSelected(GroupTail(sorted), only, units),
                            areas),
                        types),
                    status),
                term),
            units))

\* Lines 125, 134, 143: the options of the three multiselects.
AreaOptions(units) == {units[i].AreaDisplayName : i \in 1..Len(units)} \ {NaN}
TypeOptions(units) == {units[i].GenerationUnitType : i \in 1..Len(units)} \ {NaN}
StatusOptions(units) == {units[i].GenerationUnitStatus : i \in 1..Len(units)} \ {NaN}

----------------------------------------------------------------------------
(* Selection: sync_selection, lines 81-98 *)

\* list.remove(x): the list without its first x.
RECURSIVE ListRemove(_, _)
ListRemove(list, x) ==
    IF list = <<>> THEN <<>>
    ELSE IF Head(list) = x THEN Tail(list)
    ELSE <<Head(list)>> \o ListRemove(Tail(list), x)

\* Mutant of SyncRow: the row is looked up in the deduplicated registry, not
\* in the table shown.
SyncRowUnfiltered(units, table, idx, value) ==
    LET unit_code == GroupTail(sorted_units)[idx + 1].GenerationUnitCode
    IN  IF value
        THEN IF unit_code \notin Range(units) THEN Append(units, unit_code) ELSE units
        ELSE IF unit_code \in Range(units) THEN ListRemove(units, unit_code) ELSE units

\* Mutant of SyncRow: line 93 left out, the unit code is appended every time.
SyncRowAppends(units, table, idx, value) ==
    LET unit_code == table[idx + 1].GenerationUnitCode
    IN  IF value
        THEN Append(units, unit_code)
        ELSE IF unit_code \in Range(units) THEN ListRemove(units, unit_code) ELSE units

\* Lines 89-98, one edited row: idx is its position in filtered_df_units.
SyncRow(units, table, idx, value) ==
    LET unit_code == table[idx + 1].GenerationUnitCode
    IN  IF value
        THEN IF unit_code \notin Range(units) THEN Append(units, unit_code) ELSE units
        ELSE IF unit_code \in Range(units) THEN ListRemove(units, unit_code) ELSE units

\* Lines 86-98: edited_rows is the editor's dict, a sequence of <<idx, value>>.
RECURSIVE sync_selection(_, _, _)
sync_selection(units, table, edited_rows) ==
    IF edited_rows = <<>> THEN units
    ELSE sync_selection(
            SyncRow(units, table, Head(edited_rows)[1], Head(edited_rows)[2]),
            table, Tail(edited_rows))

----------------------------------------------------------------------------
(* Tab 2: generation, lines 246-324 *)

\* Lines 257-263: the first name seen for every unit code of df_units.
generation_units_name(units) ==
    [c \in {units[i].GenerationUnitCode : i \in 1..Len(units)} |->
        units[CHOOSE i \in 1..Len(units) :
                /\ units[i].GenerationUnitCode = c
                /\ \A j \in 1..(i - 1) : units[j].GenerationUnitCode # c
             ].GenerationUnitName]

\* Dates are <<year, month, day>>; the code compares "YYYY-MM-DD" text.
DateLeq(a, b) ==
    \/ a[1] < b[1]
    \/ a[1] = b[1] /\ a[2] < b[2]
    \/ a[1] = b[1] /\ a[2] = b[2] /\ a[3] <= b[3]

\* Mutant of Between: inclusive="left", the right end left out.
BetweenLeft(d, left, right) == DateLeq(left, d) /\ DateLeq(d, right) /\ d # right

\* Series.between(left, right), both ends included.
Between(d, left, right) == DateLeq(left, d) /\ DateLeq(d, right)

Alphabet == <<" ", "(", ")", ".", "0", "1", "2", "3", "4", "5", "6", "7", "8",
              "9", "A", "N", "P", "S", "T", "U", "a", "b", "n">>
Ord(c) == CHOOSE i \in 1..Len(Alphabet) : Alphabet[i] = c

RECURSIVE TextLess(_, _)
TextLess(a, b) ==
    IF b = <<>> THEN FALSE
    ELSE IF a = <<>> THEN TRUE
    ELSE IF Head(a) = Head(b) THEN TextLess(Tail(a), Tail(b))
    ELSE Ord(Head(a)) < Ord(Head(b))

KeyLess(k, l) ==
    \/ k[1] # l[1] /\ DateLeq(k[1], l[1])
    \/ k[1] = l[1] /\ TextLess(k[2], l[2])

RECURSIVE SortKeys(_)
SortKeys(keys) ==
    IF keys = {} THEN <<>>
    ELSE LET first == CHOOSE k \in keys : \A l \in keys \ {k} : KeyLess(k, l)
         IN  <<first>> \o SortKeys(keys \ {first})

RECURSIVE Sum(_)
Sum(s) == IF s = <<>> THEN 0 ELSE Head(s) + Sum(Tail(s))

RECURSIVE GCD(_, _)
GCD(a, b) == IF b = 0 THEN a ELSE GCD(b, a % b)

\* The arithmetic mean of a non-empty sequence, as a fraction in lowest terms.
Mean(values) ==
    LET g == GCD(Sum(values), Len(values))
    IN  <<Sum(values) \div g, Len(values) \div g>>

\* Lines 280-284: groupby(["DateTime", "GenerationUnitCode"]).mean().reset_index()
GroupMean(table) ==
    LET keys == SortKeys({<<table[i].DateTime, table[i].GenerationUnitCode>> :
                            i \in 1..Len(table)})
        group(k) == SelectSeq(table, LAMBDA r :
                        r.DateTime = k[1] /\ r.GenerationUnitCode = k[2])
    IN  [n \in 1..Len(keys) |->
            [DateTime |-> keys[n][1],
             GenerationUnitCode |-> keys[n][2],
             Generation_MWh |->
                Mean([i \in 1..Len(group(keys[n])) |->
                        group(keys[n])[i].Generation_MWh])]]

\* Lines 272-279
FilterGeneration(table, units, years) ==
    SelectSeq(
        SelectSeq(table, LAMBDA r : r.GenerationUnitCode \in Range(units)),
        LAMBDA r : Between(r.DateTime, <<years[1], 1, 1>>, <<years[2], 12, 31>>))

\* Lines 290-295
UnitLabel(names, code) ==
    IF code \in DOMAIN names /\ names[code] # NaN
    THEN names[code] \o <<" ", "(">> \o code \o <<")">>
    ELSE NaN

\* Lines 265-286: the variable filtered_generation after the if of line 271.
FilteredGeneration(generation, selected, years) ==
    IF Len(selected) > 0
    THEN GroupMean(FilterGeneration(DropDuplicates(generation), selected, years))
    ELSE DropDuplicates(generation)

\* Mutant of Signals: line 323 without its test of the selection.
SignalsEmptyWarns(selected, filtered) ==
    (IF Len(selected) > 0 THEN {} ELSE {"no_selection"})
    \cup (IF Len(selected) > 0 /\ filtered # <<>> THEN {"chart"}
          ELSE IF filtered = <<>> THEN {"no_data"}
          ELSE {})

\* Lines 285-286, 288, 323-324: what tab 2 shows.
Signals(selected, filtered) ==
    (IF Len(selected) > 0 THEN {} ELSE {"no_selection"})
    \cup (IF Len(selected) > 0 /\ filtered # <<>> THEN {"chart"}
          ELSE IF Len(selected) > 0 /\ filtered = <<>> THEN {"no_data"}
          ELSE {})

\* Mutant of Chart: line 288 without its test of the selection.
ChartAnySelection(units, selected, filtered) ==
    IF filtered # <<>>
    THEN [i \in 1..Len(filtered) |->
            [DateTime |-> filtered[i].DateTime,
             GenerationUnitCode |-> filtered[i].GenerationUnitCode,
             Generation_MWh |-> filtered[i].Generation_MWh,
             Unit_Label |-> UnitLabel(generation_units_name(units),
                                      filtered[i].GenerationUnitCode)]]
    ELSE <<>>

\* Lines 288-321: the rows plotted and offered for download, none when the
\* branch of line 288 is not taken.
Chart(units, selected, filtered) ==
    IF Len(selected) > 0 /\ filtered # <<>>
    THEN [i \in 1..Len(filtered) |->
            [DateTime |-> filtered[i].DateTime,
             GenerationUnitCode |-> filtered[i].GenerationUnitCode,
             Generation_MWh |-> filtered[i].Generation_MWh,
             Unit_Label |-> UnitLabel(generation_units_name(units),
                                      filtered[i].GenerationUnitCode)]]
    ELSE <<>>

----------------------------------------------------------------------------
(* The script *)

AllSteps == {"load_units", "load_generation", "session", "tab1", "tab2"}

\* Lines 109-324 of a run, on the session state the run starts with.
Render ==
    /\ filtered_df_units' = Tab1(sorted_units', selected_units', search_term',
                                 selected_areas', selected_types',
                                 selected_status', show_selected_only')
    /\ filtered_generation' = FilteredGeneration(df_generation', selected_units',
                                                 filtered_years')
    /\ signal' = Signals(selected_units', filtered_generation')
    /\ chart' = Chart(df_units', selected_units', filtered_generation')

\* The first run of the script, lines 1-344.
Startup ==
    /\ pc = "start"
    /\ last_op' = "startup"
    /\ UNCHANGED inputs
    /\ LET u == load_csv_data(unit_folder)
           g == load_parquet_data(gen_folder)
       IN  IF u.raised
           THEN /\ pc' = "failed"
                /\ UNCHANGED <<steps, loaded, filters, selected_units,
                               filtered_years, filtered_df_units,
                               filtered_generation, signal, chart>>
           ELSE IF g.raised
           THEN /\ pc' = "failed"
                /\ steps' = {"load_units"}
                /\ units_loaded' = u.table
                /\ df_units' = NotNaRows(u.table)
                /\ UNCHANGED <<sorted_units, df_generation, filters,
                               selected_units, filtered_years, filtered_df_units,
                               filtered_generation, signal, chart>>
           ELSE /\ pc' = "running"
                /\ steps' = AllSteps
                /\ units_loaded' = u.table
                /\ df_units' = NotNaRows(u.table)
                /\ df_generation' = g.table
                /\ \E sorted \in SortValues(NotNaRows(u.table)) :
                       sorted_units' = sorted
                /\ selected_units' = <<>>
                /\ search_term' = <<>>
                /\ selected_areas' = {}
                /\ selected_types' = {}
                /\ selected_status' = {}
                /\ show_selected_only' = FALSE
                /\ filtered_years' = <<NowYear - 1, NowYear>>
                /\ Render

\* What a rerun leaves alone.
Rerun(op) ==
    /\ pc = "running"
    /\ last_op' = op
    /\ UNCHANGED <<inputs, loaded, pc, steps>>

SearchTerms == {<<>>, <<"a", "2">>, <<"0">>}

\* Line 119: the text input changes.
SetSearchTerm(term) ==
    /\ Rerun("rerun")
    /\ term # search_term
    /\ search_term' = term
    /\ UNCHANGED <<selected_areas, selected_types, selected_status,
                   show_selected_only, selected_units, filtered_years>>
    /\ Render

\* Lines 126-128
SetSelectedAreas(areas) ==
    /\ Rerun("rerun")
    /\ areas # selected_areas
    /\ selected_areas' = areas
    /\ UNCHANGED <<search_term, selected_types, selected_status,
                   show_selected_only, selected_units, filtered_years>>
    /\ Render

\* Lines 135-137
SetSelectedTypes(types) ==
    /\ Rerun("rerun")
    /\ types # selected_types
    /\ selected_types' = types
    /\ UNCHANGED <<search_term, selected_areas, selected_status,
                   show_selected_only, selected_units, filtered_years>>
    /\ Render

\* Lines 144-146
SetSelectedStatus(status) ==
    /\ Rerun("rerun")
    /\ status # selected_status
    /\ selected_status' = status
    /\ UNCHANGED <<search_term, selected_areas, selected_types,
                   show_selected_only, selected_units, filtered_years>>
    /\ Render

\* Lines 151-155
ToggleShowSelectedOnly ==
    /\ Rerun("rerun")
    /\ show_selected_only' = ~show_selected_only
    /\ UNCHANGED <<search_term, selected_areas, selected_types,
                   selected_status, selected_units, filtered_years>>
    /\ Render

\* Mutant of reset_filters: the variant that clears the selection too.
reset_filters_and_selection ==
    /\ Rerun("reset")
    /\ search_term' = <<>>
    /\ selected_areas' = {}
    /\ selected_types' = {}
    /\ selected_status' = {}
    /\ show_selected_only' = FALSE
    /\ selected_units' = <<>>
    /\ UNCHANGED filtered_years
    /\ Render

\* Lines 72-77 and 159: the "Reset filters" button.
reset_filters ==
    /\ Rerun("reset")
    /\ search_term' = <<>>
    /\ selected_areas' = {}
    /\ selected_types' = {}
    /\ selected_status' = {}
    /\ show_selected_only' = FALSE
    /\ UNCHANGED <<selected_units, filtered_years>>
    /\ Render

\* Lines 163-166: the "Unselect all" button.
UnselectAll ==
    /\ Rerun("unselect")
    /\ selected_units' = <<>>
    /\ UNCHANGED <<filters, filtered_years>>
    /\ Render

\* The edits an editor showing n rows can report: one row, or two.
SingleEdits(n) == {<<e>> : e \in (0..(n - 1)) \X BOOLEAN}
EditedRows(n) ==
    LET edits == (0..(n - 1)) \X BOOLEAN
    IN  {<<e>> : e \in edits}
        \cup {<<p[1], p[2]>> : p \in {q \in edits \X edits : q[1][1] # q[2][1]}}

\* Lines 228-234 and 81-98: a checkbox of the editor changes.  The callback
\* runs before the script does, so the filtered_df_units it reads is the
\* table the last run handed to the editor.
EditSelected(edited_rows) ==
    /\ Rerun("rerun")
    /\ selected_units' = sync_selection(selected_units, filtered_df_units,
                                        edited_rows)
    /\ UNCHANGED <<filters, filtered_years>>
    /\ Render

\* Lines 250-255: the year slider changes.
SetYears(y0, y1) ==
    /\ Rerun("rerun")
    /\ y0 <= y1
    /\ <<y0, y1>> # filtered_years
    /\ filtered_years' = <<y0, y1>>
    /\ UNCHANGED <<filters, selected_units>>
    /\ Render

----------------------------------------------------------------------------
(* Inputs and specifications *)

SeqsUpTo(S, n) == UNION {[1..k -> S] : k \in 0..n}

UnitRow(area, code, name, type, status, time) ==
    [AreaDisplayName |-> area, GenerationUnitCode |-> code,
     GenerationUnitName |-> name, GenerationUnitType |-> type,
     GenerationUnitStatus |-> status, UpdateTime |-> time]

GenRow(date, code, mwh) ==
    [DateTime |-> date, GenerationUnitCode |-> code, Generation_MWh |-> mwh]

CsvFile(rows) == [ext |-> "csv", rows |-> rows]
ParquetFile(rows) == [ext |-> "parquet", rows |-> rows]

\* Before the first run: nothing loaded, no session state.
InitWith(units, generation) ==
    /\ unit_folder = units
    /\ gen_folder = generation
    /\ pc = "start"
    /\ steps = {}
    /\ units_loaded = <<>>
    /\ df_units = <<>>
    /\ sorted_units = <<>>
    /\ df_generation = <<>>
    /\ search_term = <<>>
    /\ selected_areas = {}
    /\ selected_types = {}
    /\ selected_status = {}
    /\ show_selected_only = FALSE
    /\ selected_units = <<>>
    /\ filtered_years = <<NowYear - 1, NowYear>>
    /\ filtered_df_units = <<>>
    /\ filtered_generation = <<>>
    /\ signal = {}
    /\ chart = <<>>
    /\ last_op = "none"

\* A small registry and a small generation table, for the specifications that
\* vary the other one.
TwoUnits ==
    <<CsvFile(<<UnitRow(A1, U1, Pa, T1, S1, 1), UnitRow(A2, U2, Pb, T1, S1, 2)>>)>>
SomeGeneration ==
    <<ParquetFile(<<GenRow(<<2015, 1, 1>>, U1, 100)>>)>>

\* --- Loading: folders of files of several kinds, few rows.
FolderRows == {UnitRow(A1, U1, Pa, T1, S1, 1), UnitRow(NaN, U2, Pb, T1, S1, 2)}
FolderGenRows == {GenRow(<<2015, 1, 1>>, U1, 100)}
Files(rows, n) == [ext : {"csv", "parquet"}, rows : SeqsUpTo(rows, n)]
Folders(rows) ==
    {f \in SeqsUpTo(Files(rows, MaxRows), MaxFiles) :
        Len(Concat(f)) <= MaxRows}

InitLoad ==
    \E u \in Folders(FolderRows), g \in Folders(FolderGenRows) : InitWith(u, g)
SpecLoad == InitLoad /\ [][Startup]_vars

\* --- Deduplication: one file, snapshots with and without code and area.
Times == 1..2
SnapshotRows ==
    {UnitRow(area, code, IF time = 1 THEN Pa ELSE Pb, T1, S1, time) :
        area \in {A1, NaN}, code \in {U1, U2, NaN}, time \in Times}

InitDedup ==
    \E rows \in SeqsUpTo(SnapshotRows, MaxRegRows) :
        InitWith(<<CsvFile(rows)>>, SomeGeneration)
SpecDedup == InitDedup /\ [][Startup]_vars

\* --- Filters: registries whose rows differ in area, type and status.
FilterRows ==
    {UnitRow(area, code, Pa, type, IF code = U1 THEN S1 ELSE NaN,
             IF area = A1 THEN 1 ELSE 2) :
        area \in {A1, A2}, code \in {U1, U2}, type \in {T1, NaN}}

InitFilter ==
    \E rows \in SeqsUpTo(FilterRows, MaxRows) \ {<<>>} :
        InitWith(<<CsvFile(rows)>>, SomeGeneration)

NextFilter ==
    \/ Startup
    \/ \E term \in SearchTerms : SetSearchTerm(term)
    \/ \E areas \in SUBSET AreaOptions(df_units) : SetSelectedAreas(areas)
    \/ \E types \in SUBSET TypeOptions(df_units) : SetSelectedTypes(types)
    \/ \E status \in SUBSET StatusOptions(df_units) : SetSelectedStatus(status)
    \/ reset_filters

SpecFilter == InitFilter /\ [][NextFilter]_vars

\* --- The session: filters, selection, buttons.
SessionRows ==
    {UnitRow(area, U1, Pa, IF time = 1 THEN T1 ELSE NaN, S1, time) :
        area \in {A1, A2}, time \in Times}
    \cup {UnitRow(A2, U2, Pb, T1, NaN, 1)}
SessionTerms == {<<>>, <<"a", "2">>}

InitSession ==
    \E rows \in SeqsUpTo(SessionRows, MaxRows) \ {<<>>} :
        InitWith(<<CsvFile(rows)>>, SomeGeneration)

NextSession ==
    \/ Startup
    \/ \E term \in SessionTerms : SetSearchTerm(term)
    \/ \E areas \in SUBSET AreaOptions(df_units) : SetSelectedAreas(areas)
    \/ \E types \in SUBSET TypeOptions(df_units) : SetSelectedTypes(types)
    \/ \E status \in SUBSET StatusOptions(df_units) : SetSelectedStatus(status)
    \/ ToggleShowSelectedOnly
    \/ reset_filters
    \/ UnselectAll
    \/ \E edited_rows \in EditedRows(Len(filtered_df_units)) :
           EditSelected(edited_rows)

Spec == InitSession /\ [][NextSession]_vars

\* --- Generation: generation tables, selections and year ranges.
Dates == {<<2014, 12, 31>>, <<2015, 1, 1>>}
GenerationRows ==
    {GenRow(date, U1, mwh) : date \in Dates, mwh \in {100, 120}}
    \cup {GenRow(date, U2, 100) : date \in Dates}

InitGen ==
    \E rows \in SeqsUpTo(GenerationRows, MaxGenRows) :
        InitWith(TwoUnits, <<ParquetFile(rows)>>)

NextGen ==
    \/ Startup
    \/ UnselectAll
    \/ \E edited_rows \in SingleEdits(Len(filtered_df_units)) :
           EditSelected(edited_rows)
    \/ \E y0, y1 \in MinYear..NowYear : SetYears(y0, y1)

SpecGen == InitGen /\ [][NextGen]_vars

----------------------------------------------------------------------------
(* Properties *)

\* A shown table without its Selected column.
Unselected(table) ==
    [i \in 1..Len(table) |->
        [index |-> table[i].index,
         AreaDisplayName |-> table[i].AreaDisplayName,
         GenerationUnitCode |-> table[i].GenerationUnitCode,
         GenerationUnitName |-> table[i].GenerationUnitName,
         GenerationUnitType |-> table[i].GenerationUnitType,
         GenerationUnitStatus |-> table[i].GenerationUnitStatus,
         UpdateTime |-> table[i].UpdateTime]]

Codes(table) == {table[i].GenerationUnitCode : i \in 1..Len(table)}

NoFilter ==
    /\ search_term = <<>>
    /\ selected_areas = {}
    /\ selected_types = {}
    /\ selected_status = {}
    /\ show_selected_only = FALSE

\* C1: with no filter set, the table shown holds, for every unit code of the
\* loaded registry (the rows with a code and an area), exactly one row, and
\* that row is a loaded snapshot of the code whose update time is the maximum
\* over the loaded snapshots of the code; it holds no other row.
C1_DedupLatestPerCode ==
    (pc = "running" /\ NoFilter) =>
        LET shown == Unselected(filtered_df_units)
        IN  /\ \A c \in Codes(df_units) :
                  Cardinality({j \in 1..Len(shown) :
                                  shown[j].GenerationUnitCode = c}) = 1
            /\ \A j \in 1..Len(shown) :
                  /\ shown[j] \in Range(df_units)
                  /\ \A i \in 1..Len(df_units) :
                        df_units[i].GenerationUnitCode = shown[j].GenerationUnitCode
                        => df_units[i].UpdateTime <= shown[j].UpdateTime

\* C1 witness: a unit with an older and a newer snapshot, a second unit, and
\* one row per unit shown.
C1_Witness ==
    /\ pc = "running"
    /\ Len(filtered_df_units) = 2
    /\ \E i, j \in 1..Len(df_units) :
          /\ df_units[i].GenerationUnitCode = df_units[j].GenerationUnitCode
          /\ df_units[i].UpdateTime < df_units[j].UpdateTime
          /\ i > j

\* The four filters of lines 185-210, numbered in the order of the code.
FilterStep(k, table) ==
    CASE k = 1 -> FilterArea(table, selected_areas)
      [] k = 2 -> FilterType(table, selected_types)
      [] k = 3 -> FilterStatus(table, selected_status)
      [] k = 4 -> TextSearch(table, search_term)

\* The filters applied in the given order, the one numbered twice a second
\* time right after its first.
RECURSIVE FilterInOrder(_, _, _)
FilterInOrder(order, twice, table) ==
    IF order = <<>> THEN table
    ELSE LET once == FilterStep(Head(order), table)
         IN  FilterInOrder(Tail(order), twice,
                           IF Head(order) = twice
                           THEN FilterStep(Head(order), once)
                           ELSE once)

\* The 24 orders of the four filters.
FilterOrders == {[i \in 1..4 |-> p[i]] : p \in Orderings(4)}

C3_EmptyFiltersAreNoOps ==
    pc = "running" =>
        /\ search_term = <<>> =>
              Unselected(filtered_df_units)
              = FilterStatus(
                    FilterType(
                        FilterArea(
                            FilterSelected(GroupTail(sorted_units),
                                           show_selected_only, selected_units),
                            selected_areas),
                        selected_types),
                    selected_status)
        /\ NoFilter => Unselected(filtered_df_units) = GroupTail(sorted_units)

\* C3 witness: filters were set and reset, two units are in the registry, one
\* of them selected, and both are shown.
C3_Witness ==
    /\ pc = "running"
    /\ last_op = "reset"
    /\ NoFilter
    /\ Len(selected_units) = 1
    /\ Len(filtered_df_units) = 2

\* C4 (as amended): with an empty selection tab 2 shows the "no selection"
\* message and nothing else, and no row is charted or offered for download.
C4_EmptySelectionShowsNothing ==
    (pc = "running" /\ selected_units = <<>>) =>
        /\ signal = {"no_selection"}
        /\ chart = <<>>

\* C4 (as claimed): with an empty selection the aggregated table is empty and
\* the "no selection" message is shown.
C4_EmptySelectionEmptyResult ==
    (pc = "running" /\ selected_units = <<>>) =>
        /\ filtered_generation = <<>>
        /\ "no_selection" \in signal

\* C4 witness: a selection was made and cleared, over a generation table
\* with rows.
C4_Witness ==
    /\ pc = "running"
    /\ last_op = "unselect"
    /\ selected_units = <<>>
    /\ Len(df_generation) = MaxGenRows
    /\ signal = {"no_selection"}

RECURSIVE SetSum(_)
SetSum(S) == IF S = {} THEN 0
             ELSE LET x == CHOOSE y \in S : TRUE IN x + SetSum(S \ {x})

\* The source rows of a (date, unit code) pair, and the pairs of the selected
\* units within the years of the slider.
SourceRows(key) ==
    SelectSeq(df_generation, LAMBDA r :
        r.DateTime = key[1] /\ r.GenerationUnitCode = key[2])
SelectedKeys ==
    {<<df_generation[i].DateTime, df_generation[i].GenerationUnitCode>> :
        i \in {j \in 1..Len(df_generation) :
                 /\ df_generation[j].GenerationUnitCode \in Range(selected_units)
                 /\ df_generation[j].DateTime[1] >= filtered_years[1]
                 /\ df_generation[j].DateTime[1] <= filtered_years[2]}}

\* One row for every selected pair within the years, and no other row.
OneRowPerSelectedKey ==
    /\ {<<filtered_generation[i].DateTime,
          filtered_generation[i].GenerationUnitCode>> :
            i \in 1..Len(filtered_generation)} = SelectedKeys
    /\ Len(filtered_generation) = Cardinality(SelectedKeys)

\* C5 (as amended): with a selection, the aggregated table has exactly one row
\* for every (date, unit code) pair of a selected unit within the years, both
\* end days included, and the row's value is the mean of the distinct values
\* of the pair's source rows.
C5_MeanOfDistinctValues ==
    (pc = "running" /\ selected_units # <<>>) =>
        /\ OneRowPerSelectedKey
        /\ \A i \in 1..Len(filtered_generation) :
              LET row == filtered_generation[i]
                  source == SourceRows(<<row.DateTime, row.GenerationUnitCode>>)
                  values == {source[k].Generation_MWh : k \in 1..Len(source)}
              IN  row.Generation_MWh[1] * Cardinality(values)
                  = row.Generation_MWh[2] * SetSum(values)

\* C5 (as claimed): the row's value is the mean over all the source rows of
\* the pair.
C5_MeanOfAllSourceRows ==
    (pc = "running" /\ selected_units # <<>>) =>
        /\ OneRowPerSelectedKey
        /\ \A i \in 1..Len(filtered_generation) :
              LET row == filtered_generation[i]
                  source == SourceRows(<<row.DateTime, row.GenerationUnitCode>>)
              IN  row.Generation_MWh[1] * Len(source)
                  = row.Generation_MWh[2]
                    * Sum([k \in 1..Len(source) |-> source[k].Generation_MWh])

\* C5 witness: a selected unit has values 100 and 120 on the last day of the
\* year range, and the chart has that day's row with value 110.
C5_Witness ==
    /\ pc = "running"
    /\ selected_units = <<U1>>
    /\ filtered_years = <<MinYear, MinYear>>
    /\ GenRow(<<MinYear, 12, 31>>, U1, 100) \in Range(df_generation)
    /\ GenRow(<<MinYear, 12, 31>>, U1, 120) \in Range(df_generation)
    /\ \E i \in 1..Len(chart) :
          /\ chart[i].DateTime = <<MinYear, 12, 31>>
          /\ chart[i].Generation_MWh = <<110, 1>>

\* A generation row of a selected unit lies within the years of the slider.
HasSelectedData ==
    \E i \in 1..Len(df_generation) :
        /\ df_generation[i].GenerationUnitCode \in Range(selected_units)
        /\ df_generation[i].DateTime[1] >= filtered_years[1]
        /\ df_generation[i].DateTime[1] <= filtered_years[2]

\* C6: every run shows exactly one of "no selection", "no data" and the
\* chart: "no selection" iff nothing is selected, "no data" iff units
\* are selected and none of their rows lies within the years, the chart
\* otherwise; rows are charted only with the chart.
C6_ExactlyOneOutcome ==
    pc = "running" =>
        /\ Cardinality(signal) = 1
        /\ "no_selection" \in signal <=> selected_units = <<>>
        /\ "no_data" \in signal <=> (selected_units # <<>> /\ ~HasSelectedData)
        /\ "chart" \in signal <=> (selected_units # <<>> /\ HasSelectedData)
        /\ chart # <<>> <=> "chart" \in signal

\* C6 witness: a unit is selected whose rows all lie outside the years.
C6_Witness ==
    /\ pc = "running"
    /\ Len(selected_units) = 1
    /\ signal = {"no_data"}
    /\ \E i \in 1..Len(df_generation) :
          df_generation[i].GenerationUnitCode \in Range(selected_units)

\* C7: a run started by editing Selected checkboxes of the table shown leaves
\* the unit code of every edited row selected iff its checkbox was set, leaves
\* every other unit code as it was, and changes no filter value, whatever the
\* filters and the selection were.
C7_EditChangesOnlyThatUnit ==
    [][\A edited_rows \in EditedRows(Len(filtered_df_units)) :
          EditSelected(edited_rows) =>
              LET code(k) == filtered_df_units[edited_rows[k][1] + 1]
                                .GenerationUnitCode
                  edited == {code(k) : k \in 1..Len(edited_rows)}
              IN  /\ \A k \in 1..Len(edited_rows) :
                        code(k) \in Range(selected_units') <=> edited_rows[k][2]
                  /\ \A c \in (Range(selected_units) \cup Range(selected_units'))
                              \ edited :
                        c \in Range(selected_units) <=> c \in Range(selected_units')
                  /\ UNCHANGED <<filters, filtered_years, inputs, loaded>>
      ]_vars

\* C7 witness: a filter hides the first row of the deduplicated registry, and
\* the unit of the first row shown, not the hidden one, is the one selected.
C7_Witness ==
    /\ pc = "running"
    /\ last_op = "rerun"
    /\ ~show_selected_only
    /\ Len(GroupTail(sorted_units)) = 2
    /\ Len(filtered_df_units) = 1
    /\ filtered_df_units[1].GenerationUnitCode
           # GroupTail(sorted_units)[1].GenerationUnitCode
    /\ selected_units = <<filtered_df_units[1].GenerationUnitCode>>

\* C8: a run started by "Reset filters" ends with every filter value empty and
\* the selection as it was; a run started by "Unselect all" ends with the
\* selection empty and every filter value as it was.
C8_ResetAndUnselectIndependent ==
    [][/\ last_op' = "reset" =>
            (NoFilter' /\ selected_units' = selected_units)
       /\ last_op' = "unselect" =>
            (selected_units' = <<>> /\ UNCHANGED filters)
      ]_vars

\* C8 witness: filters were reset while two units were selected.
C8_Witness ==
    /\ pc = "running"
    /\ last_op = "reset"
    /\ NoFilter
    /\ Len(selected_units) = 2

\* The number of rows equal to row in a table, and in the files of a folder
\* whose name ends in ext.
Count(table, row) == Cardinality({i \in 1..Len(table) : table[i] = row})
RECURSIVE CountInFiles(_, _, _)
CountInFiles(folder, ext, row) ==
    IF folder = <<>> THEN 0
    ELSE (IF Head(folder).ext = ext THEN Count(Head(folder).rows, row) ELSE 0)
         + CountInFiles(Tail(folder), ext, row)
HasFile(folder, ext) == \E i \in 1..Len(folder) : folder[i].ext = ext

\* C9: after the first run, if a folder has no matching file the run failed
\* and neither session state nor the tabs were reached; a table that was
\* loaded holds every row of every matching file as often as the files do, and
\* nothing else.
C9_LoadAllOrFail ==
    pc # "start" =>
        /\ pc = "failed" <=>
              (~HasFile(unit_folder, "csv") \/ ~HasFile(gen_folder, "parquet"))
        /\ pc = "failed" =>
              /\ steps \cap {"session", "tab1", "tab2"} = {}
              /\ filtered_df_units = <<>> /\ filtered_generation = <<>>
              /\ signal = {} /\ chart = <<>>
        /\ HasFile(unit_folder, "csv") =>
              \A row \in Range(units_loaded) \cup Range(Concat(unit_folder)) :
                  Count(units_loaded, row) = CountInFiles(unit_folder, "csv", row)
        /\ pc = "running" =>
              \A row \in Range(df_generation) \cup Range(Concat(gen_folder)) :
                  Count(df_generation, row)
                  = CountInFiles(gen_folder, "parquet", row)

\* C9 witness: the registry was loaded from two files, the generation folder
\* holds only a file of another kind, and the run failed after the registry.
C9_Witness ==
    /\ pc = "failed"
    /\ steps = {"load_units"}
    /\ Len(Glob(unit_folder, "csv")) = 2
    /\ Len(units_loaded) = MaxRows
    /\ gen_folder # <<>>

\* C10: the selection list holds no unit code twice, and only unit codes of
\* the loaded registry, each with an entry in the name lookup of the chart.
C10_SelectionDistinctAndKnown ==
    /\ \A i, j \in 1..Len(selected_units) :
          selected_units[i] = selected_units[j] => i = j
    /\ Range(selected_units) \subseteq Codes(df_units)
    /\ Range(selected_units) \subseteq DOMAIN generation_units_name(df_units)

\* C10 witness: both units of the registry are selected, with an area filter
\* and a search set.
C10_Witness ==
    /\ pc = "running"
    /\ last_op = "rerun"
    /\ Len(selected_units) = 2
    /\ selected_areas # {}
    /\ search_term # <<>>

====
